---- MODULE Spec2Model ----
(***************************************************************************)
(* Model of analyze_categories.py: a one-shot report that inverts          *)
(* data/words.json (word -> categories) into a category -> words index,    *)
(* keeps the categories with fewer than 4 words whose name has no reserved *)
(* prefix, sorts them by size, prints them, writes them to                 *)
(* data/thin_categories.json and prints summary statistics.                *)
(*                                                                         *)
(* Strings are sequences of one-character strings.  A Python dict is a     *)
(* sequence of <<key, value>> pairs with distinct keys, in insertion       *)
(* order.  A JSON file is a sequence of tokens.                            *)
(***************************************************************************)
EXTENDS Integers, Sequences, FiniteSets, TLC

\* ------------------------------------------------------------------ bounds

\* Datasets over every category name: at most MaxWords words (keys of
\* data/words.json) and at most MaxEntries category listings in all.
MaxWords == 3

MaxEntries == 3

\* Datasets over one reserved and one plain category name: room for a
\* category that reaches the threshold with distinct words next to a
\* reserved-prefix category.
MaxWideWords == 4

MaxWideEntries == 5

\* ------------------------------------------------------- program constants

\* Usability threshold: "len(words) < 4" / "len(w) >= 4".
Threshold == 4

StartsWithPrefix == <<"S", "t", "a", "r", "t", "s", " ", "w", "i", "t", "h">>

EndsWithPrefix == <<"E", "n", "d", "s", " ", "w", "i", "t", "h">>

\* ------------------------------------------------------------ input domain

\* Category names the datasets draw from: one with each reserved prefix, a
\* plain one, and one that only shares the first characters of a prefix.
CatStartsWithA == StartsWithPrefix \o <<" ", "A">>

CatEndsWithZ == EndsWithPrefix \o <<" ", "Z">>

CatPet == <<"P", "e", "t">>

CatEnds == <<"E", "n", "d", "s">>

Names == {CatStartsWithA, CatEndsWithZ, CatPet, CatEnds}

\* The words, in the order their keys appear in data/words.json.
WordKeys == << <<"a">>, <<"b">>, <<"c">>, <<"d">>, <<"e">>, <<"f">> >>

\* ---------------------------------------------------------- Python builtins

\* str.startswith
startswith(s, p) == Len(s) >= Len(p) /\ SubSeq(s, 1, Len(p)) = p

\* dict.keys(), dict.values(), in insertion order
keys(d) == [i \in 1..Len(d) |-> d[i][1]]

values(d) == [i \in 1..Len(d) |-> d[i][2]]

HasKey(d, k) == \E i \in 1..Len(d) : d[i][1] = k

\* d[k] for a key that is present
GetItem(d, k) == d[CHOOSE i \in 1..Len(d) : d[i][1] = k][2]

\* d[k] = v : a present key keeps its position, a new key goes last
SetItem(d, k, v) ==
    IF HasKey(d, k)
    THEN [i \in 1..Len(d) |-> IF d[i][1] = k THEN <<k, v>> ELSE d[i]]
    ELSE Append(d, <<k, v>>)

\* variant of AppendTo: the word replaces the list instead of joining it
AppendTo_Overwrite(d, k, w) == SetItem(d, k, <<w>>)

\* defaultdict(list)[k].append(w)
AppendTo(d, k, w) ==
    IF HasKey(d, k) THEN SetItem(d, k, Append(GetItem(d, k), w))
    ELSE SetItem(d, k, <<w>>)

\* sorted(items, key=lambda x: len(x[1])): Python's sort is stable, and on
\* short lists it is an insertion sort: each item goes after every item
\* already placed whose key is not larger.
RECURSIVE InsertByLen(_, _)
InsertByLen(placed, item) ==
    IF placed = <<>> THEN <<item>>
    ELSE IF Len(Head(placed)[2]) <= Len(item[2])
         THEN <<Head(placed)>> \o InsertByLen(Tail(placed), item)
         ELSE <<item>> \o placed

RECURSIVE SortedFrom(_, _)
SortedFrom(placed, rest) ==
    IF rest = <<>> THEN placed
    ELSE SortedFrom(InsertByLen(placed, Head(rest)), Tail(rest))

\* variant of sorted_by_len: the longest list first (reverse=True)
RECURSIVE Reversed(_)
Reversed(items) ==
    IF items = <<>> THEN <<>> ELSE Append(Reversed(Tail(items)), Head(items))

sorted_by_len_Descending(items) == Reversed(SortedFrom(<<>>, Reversed(items)))

sorted_by_len(items) == SortedFrom(<<>>, items)

\* ---------------------------------------------------------------- JSON text

\* A token is a tuple whose first element names its kind: "{", "}", "[",
\* "]", ":", ",", or "str" followed by the string.

RECURSIVE DumpItems(_)
DumpItems(l) ==
    IF l = <<>> THEN <<>>
    ELSE IF Len(l) = 1 THEN << <<"str", l[1]>> >>
    ELSE << <<"str", l[1]>>, <<",">> >> \o DumpItems(Tail(l))

DumpArray(l) == << <<"[">> >> \o DumpItems(l) \o << <<"]">> >>

RECURSIVE DumpMembers(_)
DumpMembers(d) ==
    IF d = <<>> THEN <<>>
    ELSE << <<"str", d[1][1]>>, <<":">> >> \o DumpArray(d[1][2])
         \o (IF Len(d) = 1 THEN <<>> ELSE << <<",">> >> \o DumpMembers(Tail(d)))

\* json.dump(d, f, indent=2): members in the dict's insertion order
json_dump(d) == << <<"{">> >> \o DumpMembers(d) \o << <<"}">> >>

ParseError == [ok |-> FALSE, val |-> <<>>, next |-> 0]

Tok(t, i) == IF i <= Len(t) THEN t[i][1] ELSE "eof"

RECURSIVE ParseItems(_, _, _)
ParseItems(t, i, acc) ==
    IF Tok(t, i) # "str" THEN ParseError
    ELSE LET a == Append(acc, t[i][2])
         IN  IF Tok(t, i + 1) = "," THEN ParseItems(t, i + 2, a)
             ELSE IF Tok(t, i + 1) = "]"
                  THEN [ok |-> TRUE, val |-> a, next |-> i + 2]
                  ELSE ParseError

ParseArray(t, i) ==
    IF Tok(t, i) # "[" THEN ParseError
    ELSE IF Tok(t, i + 1) = "]" THEN [ok |-> TRUE, val |-> <<>>, next |-> i + 2]
    ELSE ParseItems(t, i + 1, <<>>)

RECURSIVE ParseMembers(_, _, _)
ParseMembers(t, i, acc) ==
    IF Tok(t, i) # "str" \/ Tok(t, i + 1) # ":" THEN ParseError
    ELSE LET arr == ParseArray(t, i + 2)
         IN  IF ~arr.ok THEN ParseError
             ELSE LET d == SetItem(acc, t[i][2], arr.val)
                  IN  IF Tok(t, arr.next) = ","
                      THEN ParseMembers(t, arr.next + 1, d)
                      ELSE IF Tok(t, arr.next) = "}"
                           THEN [ok |-> TRUE, val |-> d, next |-> arr.next + 1]
                           ELSE ParseError

ParseObject(t) ==
    IF Tok(t, 1) # "{" THEN ParseError
    ELSE IF Tok(t, 2) = "}" THEN [ok |-> TRUE, val |-> <<>>, next |-> 3]
    ELSE ParseMembers(t, 2, <<>>)

\* json.load(f): the whole text must be one object; a repeated key keeps its
\* first position and its last value
json_load(t) ==
    LET r == ParseObject(t)
    IN  IF r.ok /\ r.next = Len(t) + 1 THEN r ELSE ParseError

\* ----------------------------------------------------------------- datasets

\* The ways to deal k category listings to n words in file order: owner[j]
\* is the word that makes the j-th listing.
Owners(n, k) ==
    {o \in [1..k -> 1..n] : \A j \in 1..(k - 1) : o[j] <= o[j + 1]}

\* The dataset of n words in which the j-th listing names listing[j] and
\* belongs to word owner[j].
Dataset(n, owner, listing) ==
    [i \in 1..n |->
        <<WordKeys[i],
          LET mine == SelectSeq([j \in 1..Len(listing) |-> j], LAMBDA j : owner[j] = i)
          IN  [j \in 1..Len(mine) |-> listing[mine[j]]]>>]

\* data/words.json holds a dataset of at most maxWords words and maxEntries
\* category listings over `names`
IsDatasetFile(file, names, maxWords, maxEntries) ==
    \E n \in 0..maxWords : \E k \in 0..maxEntries :
        \E owner \in Owners(n, k) : \E listing \in [1..k -> names] :
            file = json_dump(Dataset(n, owner, listing))

\* what data/thin_categories.json holds from an earlier run
OldFile == json_dump(<< <<CatPet, << <<"o">>, <<"l">>, <<"d">> >> >> >>)

\* a data/words.json that is not JSON: an object that is never closed
MalformedFile == << <<"{">>, <<"str", <<"a">>>>, <<":">> >>

\* -------------------------------------------------------------------- state

VARIABLES
    pc,                       \* the statement the run is at, or how it ended
    in_file,                  \* content of data/words.json
    out_file,                 \* content of data/thin_categories.json
    stdout,                   \* the lines printed so far
    words_data,               \* line 14
    categories,               \* line 17
    small_categories,         \* line 23
    sorted_small_categories,  \* line 33
    thin_categories,          \* line 45
    total_categories,         \* line 57
    usable_categories         \* line 64

vars == <<pc, in_file, out_file, stdout, words_data, categories, small_categories,
          sorted_small_categories, thin_categories, total_categories,
          usable_categories>>

locals == <<words_data, categories, small_categories, sorted_small_categories,
            thin_categories, total_categories, usable_categories>>

Init ==
    /\ pc = "load"
    /\ \/ IsDatasetFile(in_file, Names, MaxWords, MaxEntries)
       \/ IsDatasetFile(in_file, {CatStartsWithA, CatPet}, MaxWideWords, MaxWideEntries)
       \/ in_file = MalformedFile
    /\ out_file = OldFile
    /\ stdout = <<>>
    /\ words_data = <<>>
    /\ categories = <<>>
    /\ small_categories = <<>>
    /\ sorted_small_categories = <<>>
    /\ thin_categories = <<>>
    /\ total_categories = 0
    /\ usable_categories = 0

\* ------------------------------------------------------------- lines 13-14

LoadWords ==
    /\ pc = "load"
    /\ json_load(in_file).ok
    /\ words_data' = json_load(in_file).val
    /\ pc' = "index"
    /\ UNCHANGED <<in_file, out_file, stdout, categories, small_categories,
                   sorted_small_categories, thin_categories, total_categories,
                   usable_categories>>

\* open() raises: the file is missing or unreadable
LoadNotFound ==
    /\ pc = "load"
    /\ pc' = "FileNotFoundError"
    /\ UNCHANGED <<in_file, out_file, stdout, locals>>

\* json.load raises: the file is not JSON
LoadMalformed ==
    /\ pc = "load"
    /\ ~json_load(in_file).ok
    /\ pc' = "JSONDecodeError"
    /\ UNCHANGED <<in_file, out_file, stdout, locals>>

\* ------------------------------------------------------------- lines 17-20

RECURSIVE IndexWord(_, _, _)
IndexWord(index, word, word_categories) ==
    IF word_categories = <<>> THEN index
    ELSE IndexWord(AppendTo(index, Head(word_categories), word), word,
                   Tail(word_categories))

RECURSIVE IndexWords(_, _)
IndexWords(index, items) ==
    IF items = <<>> THEN index
    ELSE IndexWords(IndexWord(index, Head(items)[1], Head(items)[2]), Tail(items))

BuildIndex ==
    /\ pc = "index"
    /\ categories' = IndexWords(<<>>, words_data)
    /\ pc' = "filter"
    /\ UNCHANGED <<in_file, out_file, stdout, words_data, small_categories,
                   sorted_small_categories, thin_categories, total_categories,
                   usable_categories>>

\* ------------------------------------------------------------- lines 23-30

\* variant of IsSmall: the "Ends with" test is left out
IsSmall_NoEndsWith(category, words) ==
    /\ Len(words) < Threshold
    /\ ~startswith(category, StartsWithPrefix)

\* the condition of lines 25-29
IsSmall(category, words) ==
    /\ Len(words) < Threshold
    /\ ~startswith(category, StartsWithPrefix)
    /\ ~startswith(category, EndsWithPrefix)

RECURSIVE FilterSmall(_, _)
FilterSmall(small, items) ==
    IF items = <<>> THEN small
    ELSE FilterSmall(IF IsSmall(Head(items)[1], Head(items)[2])
                     THEN SetItem(small, Head(items)[1], Head(items)[2])
                     ELSE small,
                     Tail(items))

FilterThin ==
    /\ pc = "filter"
    /\ small_categories' = FilterSmall(<<>>, categories)
    /\ pc' = "sort"
    /\ UNCHANGED <<in_file, out_file, stdout, words_data, categories,
                   sorted_small_categories, thin_categories, total_categories,
                   usable_categories>>

\* ----------------------------------------------------------------- line 33

SortThin ==
    /\ pc = "sort"
    /\ sorted_small_categories' = sorted_by_len(small_categories)
    /\ pc' = "print"
    /\ UNCHANGED <<in_file, out_file, stdout, words_data, categories,
                   small_categories, thin_categories, total_categories,
                   usable_categories>>

\* ------------------------------------------------------------- lines 35-42

\* ', '.join(words)
RECURSIVE join(_)
join(words) ==
    IF words = <<>> THEN <<>>
    ELSE IF Len(words) = 1 THEN words[1]
    ELSE words[1] \o <<",", " ">> \o join(Tail(words))

CategoryLines(items) ==
    [i \in 1..Len(items) |->
        <<"category", items[i][1], Len(items[i][2]), join(items[i][2])>>]

\* variant of PrintReport: the loop of lines 41-42 is left out
PrintReport_HeaderOnly ==
    /\ pc = "print"
    /\ stdout' = stdout \o << <<"found", Len(sorted_small_categories)>>, <<"rule">> >>
    /\ pc' = "thin"
    /\ UNCHANGED <<in_file, out_file, locals>>

PrintReport ==
    /\ pc = "print"
    /\ stdout' = stdout \o << <<"found", Len(sorted_small_categories)>>, <<"rule">> >>
                        \o CategoryLines(sorted_small_categories)
    /\ pc' = "thin"
    /\ UNCHANGED <<in_file, out_file, locals>>

\* ------------------------------------------------------------- lines 45-47

RECURSIVE DictOf(_, _)
DictOf(d, items) ==
    IF items = <<>> THEN d
    ELSE DictOf(SetItem(d, Head(items)[1], Head(items)[2]), Tail(items))

BuildThin ==
    /\ pc = "thin"
    /\ thin_categories' = DictOf(<<>>, sorted_small_categories)
    /\ pc' = "write"
    /\ UNCHANGED <<in_file, out_file, stdout, words_data, categories,
                   small_categories, sorted_small_categories, total_categories,
                   usable_categories>>

\* ------------------------------------------------------------- lines 49-54

\* variant of WrittenFile: the file is opened with "a"
WrittenFile_Append(old, text) == old \o text

\* open(..., "w") truncates the file, json.dump writes the new text
WrittenFile(old, text) == text

WriteOutput ==
    /\ pc = "write"
    /\ out_file' = WrittenFile(out_file, json_dump(thin_categories))
    /\ stdout' = Append(stdout, <<"saved", Len(thin_categories)>>)
    /\ pc' = "summary"
    /\ UNCHANGED <<in_file, locals>>

\* open() raises and the file is as it was, or the write raises after open()
\* has truncated it
WriteFails ==
    /\ pc = "write"
    /\ out_file' \in {out_file, <<>>}
    /\ pc' = "OSError"
    /\ UNCHANGED <<in_file, stdout, locals>>

\* ------------------------------------------------------------- lines 57-74

\* variant of NotExcluded: only "Starts with" is tested
NotExcluded_StartsOnly(c) == ~startswith(c, StartsWithPrefix)

NotExcluded(c) ==
    ~startswith(c, StartsWithPrefix) /\ ~startswith(c, EndsWithPrefix)

\* variant of TotalCategories: every key of the index is counted
TotalCategories_AllKeys(index) == Len(keys(index))

\* lines 57-63
TotalCategories(index) == Len(SelectSeq(keys(index), NotExcluded))

\* lines 69-72: any(...) over every key of the index
AnyExcludedKey(index) ==
    \E i \in 1..Len(index) :
        \/ startswith(keys(index)[i], StartsWithPrefix)
        \/ startswith(keys(index)[i], EndsWithPrefix)

\* lines 64-74
UsableCategories(index) ==
    LET Keep(w) == Len(w) >= Threshold /\ ~AnyExcludedKey(index)
    IN  Len(SelectSeq(values(index), Keep))

ComputeSummary ==
    /\ pc = "summary"
    /\ total_categories' = TotalCategories(categories)
    /\ usable_categories' = UsableCategories(categories)
    /\ pc' = "print_summary"
    /\ UNCHANGED <<in_file, out_file, stdout, words_data, categories,
                   small_categories, sorted_small_categories, thin_categories>>

\* ------------------------------------------------------------- lines 76-81

\* f"{usable/total*100:.1f}", in tenths of a percent: the nearest tenth, a tie
\* going to the even one
FormatPercent(usable, total) ==
    LET q == (usable * 1000) \div total
        r == (usable * 1000) % total
    IN  IF 2 * r > total \/ (2 * r = total /\ q % 2 = 1) THEN q + 1 ELSE q

SummaryHead ==
    << <<"rule">>, <<"summary">>, <<"total", total_categories>>,
       <<"usable", usable_categories>>,
       <<"thin", Len(sorted_small_categories)>> >>

PrintSummary ==
    /\ pc = "print_summary"
    /\ total_categories # 0
    /\ stdout' = stdout \o SummaryHead
                        \o << <<"percentage",
                                FormatPercent(usable_categories, total_categories)>> >>
    /\ pc' = "done"
    /\ UNCHANGED <<in_file, out_file, locals>>

\* variant of PrintSummaryDividesByZero: the percentage is computed before
\* the first line of the block is printed
PrintSummaryDividesByZero_First ==
    /\ pc = "print_summary"
    /\ total_categories = 0
    /\ pc' = "ZeroDivisionError"
    /\ UNCHANGED <<in_file, out_file, stdout, locals>>

\* line 81 divides by zero while it builds the line: lines 76-80 are out
PrintSummaryDividesByZero ==
    /\ pc = "print_summary"
    /\ total_categories = 0
    /\ stdout' = stdout \o SummaryHead
    /\ pc' = "ZeroDivisionError"
    /\ UNCHANGED <<in_file, out_file, locals>>

\* ------------------------------------------------------------ specification

Next ==
    \/ LoadWords
    \/ LoadNotFound
    \/ LoadMalformed
    \/ BuildIndex
    \/ FilterThin
    \/ SortThin
    \/ PrintReport
    \/ BuildThin
    \/ WriteOutput
    \/ WriteFails
    \/ ComputeSummary
    \/ PrintSummary
    \/ PrintSummaryDividesByZero

Spec == Init /\ [][Next]_vars

\* ------------------------------------------------- vocabulary of the claims

\* the name starts with "Starts with" or with "Ends with"
Reserved(c) ==
    \/ (Len(c) >= 11 /\ [j \in 1..11 |-> c[j]] = StartsWithPrefix)
    \/ (Len(c) >= 9 /\ [j \in 1..9 |-> c[j]] = EndsWithPrefix)

\* the category listings of the dataset in the order the run scans them,
\* each with the word that makes it
RECURSIVE Scan(_)
Scan(data) ==
    IF data = <<>> THEN <<>>
    ELSE [j \in 1..Len(data[1][2]) |-> <<data[1][1], data[1][2][j]>>] \o Scan(Tail(data))

\* the position in the scan at which category c is first listed
FirstSeen(scan, c) ==
    CHOOSE j \in 1..Len(scan) :
        /\ scan[j][2] = c
        /\ \A h \in 1..(j - 1) : scan[h][2] # c

\* how often x occurs in the sequence s
Occurrences(s, x) == Cardinality({j \in 1..Len(s) : s[j] = x})

\* the categories of the index that have no reserved prefix
NonExcluded == {i \in 1..Len(categories) : ~Reserved(categories[i][1])}

Indexed == pc \notin {"load", "index", "FileNotFoundError", "JSONDecodeError"}

Filtered == Indexed /\ pc # "filter"

Sorted == Filtered /\ pc # "sort"

Printed == Sorted /\ pc # "print"

ThinBuilt == Printed /\ pc # "thin"

Written == pc \in {"summary", "print_summary", "done", "ZeroDivisionError"}

SummaryComputed == pc \in {"print_summary", "done", "ZeroDivisionError"}

\* lines 78-80 are printed in a run that ends at either of these
SummaryPrinted == pc \in {"done", "ZeroDivisionError"}

\* the printed lines of one kind, in print order
LinesOf(kind) == SelectSeq(stdout, LAMBDA line : line[1] = kind)

\* -------------------------------------------------------------------- C1

\* C1: once the thin categories are selected, a category of the index is
\* among them if and only if its word list has fewer than 4 words and its
\* name has no reserved prefix, no other name is among them, and each one
\* carries the index's word list for it unchanged; the same holds of the
\* mapping that is written.
C1_ThinFilter ==
    LET Right(thin) ==
            /\ \A i \in 1..Len(categories) :
                   LET c == categories[i][1]
                       w == categories[i][2]
                   IN  /\ HasKey(thin, c) <=> (Len(w) < 4 /\ ~Reserved(c))
                       /\ HasKey(thin, c) => GetItem(thin, c) = w
            /\ \A i \in 1..Len(thin) : HasKey(categories, thin[i][1])
            /\ \A i, j \in 1..Len(thin) : thin[i][1] = thin[j][1] => i = j
    IN  /\ Filtered => Right(small_categories)
        /\ Sorted => Right(sorted_small_categories)
        /\ ThinBuilt => Right(thin_categories)

\* a finished run that kept a thin category and left out a short category
\* with a reserved prefix
C1_Witness ==
    /\ pc = "done"
    /\ Len(thin_categories) >= 1
    /\ \E i \in 1..Len(categories) :
           Len(categories[i][2]) < 4 /\ Reserved(categories[i][1])

\* -------------------------------------------------------------------- C2

\* C2: the usable count that is computed and printed is the number of
\* categories with no reserved prefix and at least 4 words.
C2_UsableCount ==
    LET usable == Cardinality({i \in NonExcluded : Len(categories[i][2]) >= 4})
    IN  /\ SummaryComputed => usable_categories = usable
        /\ SummaryPrinted => LinesOf("usable") = << <<"usable", usable>> >>

\* -------------------------------------------------------------------- C3

\* C3: in the printed summary, usable + thin = total.
C3_SummaryAdds ==
    /\ SummaryComputed =>
           usable_categories + Len(sorted_small_categories) = total_categories
    /\ SummaryPrinted =>
           LinesOf("usable")[1][2] + LinesOf("thin")[1][2] = LinesOf("total")[1][2]

\* -------------------------------------------------------------------- C4

\* C4: the thin categories, as sorted, as printed and as written, are in
\* non-decreasing order of word-list length, and of two with equally long
\* lists the one first listed in the dataset comes first.
C4_SortOrder ==
    LET scan == Scan(words_data)
        Ordered(items) ==
            \A i, j \in 1..Len(items) :
                i < j =>
                    /\ Len(items[i][2]) <= Len(items[j][2])
                    /\ Len(items[i][2]) = Len(items[j][2])
                           => FirstSeen(scan, items[i][1]) < FirstSeen(scan, items[j][1])
    IN  /\ Sorted => Ordered(sorted_small_categories)
        /\ Printed =>
               LET lines == LinesOf("category")
               IN  [i \in 1..Len(lines) |-> lines[i][2]] = keys(sorted_small_categories)
        /\ ThinBuilt => Ordered(thin_categories)
        /\ Written => Ordered(json_load(out_file).val)

\* a written report with two thin categories whose lists are equally long
C4_Witness ==
    /\ Written
    /\ \E i, j \in 1..Len(thin_categories) :
           i < j /\ Len(thin_categories[i][2]) = Len(thin_categories[j][2])

\* -------------------------------------------------------------------- C5

\* C5 as stated: every word is in the list of each category it lists exactly
\* once, and each list is in scan order.
C5_ExactlyOnce ==
    Indexed =>
        \A i \in 1..Len(words_data) :
            \A j \in 1..Len(words_data[i][2]) :
                /\ HasKey(categories, words_data[i][2][j])
                /\ Occurrences(GetItem(categories, words_data[i][2][j]),
                               words_data[i][1]) = 1

\* C5 as amended: a word is in a category's list as many times as it lists
\* the category (once when it lists it once, never when it does not), the
\* index has no other category and no other word, and each list is in the
\* order in which the words are scanned.
C5_IndexComplete ==
    Indexed =>
        LET scan == Scan(words_data) IN
        /\ \A i \in 1..Len(words_data) :
               \A c \in Names :
                   LET listed == Occurrences(words_data[i][2], c)
                   IN  IF HasKey(categories, c)
                       THEN Occurrences(GetItem(categories, c), words_data[i][1]) = listed
                       ELSE listed = 0
        /\ \A i \in 1..Len(categories) :
               LET c == categories[i][1]
                   w == categories[i][2]
                   mine == SelectSeq(scan, LAMBDA e : e[2] = c)
               IN  /\ c \in Names
                   /\ w # <<>>
                   /\ w = [j \in 1..Len(mine) |-> mine[j][1]]
        /\ \A i, j \in 1..Len(categories) :
               categories[i][1] = categories[j][1] => i = j

\* an index in which one category holds two different words and another
\* word lists two categories
C5_Witness ==
    /\ Indexed
    /\ \E i \in 1..Len(categories) :
           Len(categories[i][2]) >= 2 /\ categories[i][2][1] # categories[i][2][2]
    /\ \E i \in 1..Len(words_data) :
           Len(words_data[i][2]) >= 2 /\ words_data[i][2][1] # words_data[i][2][2]

\* -------------------------------------------------------------------- C6

\* C6: no category with a reserved prefix is among the thin categories that
\* are selected, printed or written, whatever its size; the total of the
\* summary is the number of index categories without a reserved prefix, and
\* its thin count is the number of those that have fewer than 4 words.
C6_Exclusion ==
    LET thin == Cardinality({i \in NonExcluded : Len(categories[i][2]) < 4})
        written == json_load(out_file).val
    IN  /\ Filtered => \A i \in 1..Len(small_categories) : ~Reserved(small_categories[i][1])
        /\ Printed => \A i \in 1..Len(stdout) :
                          stdout[i][1] = "category" => ~Reserved(stdout[i][2])
        /\ Printed => stdout[1] = <<"found", thin>>
        /\ Written => \A i \in 1..Len(written) : ~Reserved(written[i][1])
        /\ SummaryComputed => total_categories = Cardinality(NonExcluded)
        /\ SummaryPrinted =>
               /\ LinesOf("total") = << <<"total", Cardinality(NonExcluded)>> >>
               /\ LinesOf("thin") = << <<"thin", thin>> >>

\* a printed summary of an index that holds a plain category and two short
\* categories, one with each reserved prefix
C6_Witness ==
    /\ SummaryPrinted
    /\ NonExcluded # {}
    /\ \E i, j \in 1..Len(categories) :
           /\ Len(categories[i][2]) < 4 /\ Len(categories[j][2]) < 4
           /\ categories[i][1] = CatStartsWithA
           /\ categories[j][1] = CatEndsWithZ

\* -------------------------------------------------------------------- C7

\* C7 as stated: when the write fails, the header, the line of each thin
\* category and the summary block are already printed.
C7_ReportAndSummaryBeforeFailure ==
    pc = "OSError" =>
        /\ LinesOf("found") # <<>>
        /\ Len(LinesOf("category")) = Len(sorted_small_categories)
        /\ LinesOf("summary") # <<>>
        /\ LinesOf("total") # <<>>
        /\ LinesOf("usable") # <<>>
        /\ LinesOf("thin") # <<>>

\* C7 as amended: when the write fails, the header and the line of each thin
\* category, in sorted order, are already printed, and nothing else is: no
\* confirmation line and no line of the summary block.
C7_ReportBeforeFailure ==
    pc = "OSError" =>
        /\ Len(stdout) = 2 + Len(sorted_small_categories)
        /\ stdout[1] = <<"found", Len(sorted_small_categories)>>
        /\ stdout[2] = <<"rule">>
        /\ \A i \in 1..Len(sorted_small_categories) :
               /\ stdout[i + 2][1] = "category"
               /\ stdout[i + 2][2] = sorted_small_categories[i][1]
               /\ stdout[i + 2][3] = Len(sorted_small_categories[i][2])

\* a failed write in a run that had two thin categories to report
C7_Witness ==
    /\ pc = "OSError"
    /\ Len(sorted_small_categories) >= 2

\* -------------------------------------------------------------------- C8

\* C8: after the write, the file parses to the thin-categories mapping: the
\* same keys in the same order, each with the same word list; nothing of the
\* file's earlier content is left.
C8_RoundTrip ==
    Written =>
        LET parsed == json_load(out_file)
        IN  /\ parsed.ok
            /\ parsed.val = thin_categories
            /\ keys(parsed.val) = keys(sorted_small_categories)

\* a written file of two thin categories, one of them with two words
C8_Witness ==
    /\ Written
    /\ Len(thin_categories) >= 2
    /\ \E i \in 1..Len(thin_categories) : Len(thin_categories[i][2]) >= 2
    /\ out_file # OldFile

\* -------------------------------------------------------------------- C9

\* C9 as stated: a run whose index has no category without a reserved prefix
\* ends in the division by zero, and never normally; a run whose index has
\* one ends normally unless a file fails it.
C9_ZeroTotalDividesByZero ==
    /\ (Indexed /\ NonExcluded = {} /\ ~ENABLED Next) => pc = "ZeroDivisionError"
    /\ pc = "done" => NonExcluded # {}
    /\ pc = "ZeroDivisionError" => NonExcluded = {}

\* C9 as amended: a run whose index has no category without a reserved
\* prefix never ends normally: it ends in the division by zero at the usable
\* percentage if the output file is written, and in the write's failure
\* otherwise.  A run whose index has such a category never divides by zero,
\* and every step of it but the read and the write can be taken.
C9_ZeroTotalFails ==
    /\ (Indexed /\ NonExcluded = {} /\ ~ENABLED Next)
           => pc \in {"ZeroDivisionError", "OSError"}
    /\ (Written /\ NonExcluded = {} /\ ~ENABLED Next) => pc = "ZeroDivisionError"
    /\ pc = "ZeroDivisionError" =>
           /\ NonExcluded = {}
           /\ LinesOf("thin") # <<>>
           /\ LinesOf("percentage") = <<>>
    /\ pc = "done" => NonExcluded # {} /\ LinesOf("percentage") # <<>>
    /\ (Indexed /\ NonExcluded # {} /\ ~ENABLED Next) => pc \in {"done", "OSError"}
    /\ pc = "write" => ENABLED WriteOutput

\* a run over a dataset with categories, all of reserved prefix, that ended
\* in the division by zero
C9_Witness ==
    /\ pc = "ZeroDivisionError"
    /\ Len(categories) >= 2

\* ------------------------------------------------------------------- C10

\* C10: whenever a summary statistic is computed or printed, the file holds
\* the thin mapping and the confirmation line is printed; before that no
\* summary line is printed.  A run that ends in the division by zero has
\* replaced the file and printed the total, usable and thin lines; a run
\* that fails while loading has printed nothing and left the file as it was.
C10_WriteBeforeSummary ==
    LET summaryKinds == {"summary", "total", "usable", "thin", "percentage"}
    IN  /\ (SummaryComputed \/ \E i \in 1..Len(stdout) : stdout[i][1] \in summaryKinds)
               => /\ out_file = json_dump(thin_categories)
                  /\ LinesOf("saved") = << <<"saved", Len(thin_categories)>> >>
        /\ \A i, j \in 1..Len(stdout) :
               (stdout[i][1] = "saved" /\ stdout[j][1] \in summaryKinds) => i < j
        /\ ~Written => total_categories = 0 /\ usable_categories = 0
        /\ pc = "ZeroDivisionError" =>
               /\ out_file # OldFile
               /\ [i \in 1..3 |-> stdout[Len(stdout) - 3 + i][1]]
                      = <<"total", "usable", "thin">>
        /\ pc \in {"FileNotFoundError", "JSONDecodeError"} =>
               stdout = <<>> /\ out_file = OldFile

\* a run that ended in the division by zero after writing an empty mapping
\* over the old file
C10_Witness ==
    /\ pc = "ZeroDivisionError"
    /\ out_file = json_dump(<<>>)
    /\ Len(categories) >= 1

====
